---------------------------- MODULE Spec2Model ----------------------------
(***************************************************************************)
(* Lifetime of BrowsingContext objects and of their RelatedContextSet.     *)
(*                                                                         *)
(* One process's heap of BrowsingContext objects is modelled, with the     *)
(* custom reference counting of docshell/base/NBrowsingContext.cpp, and    *)
(* the state the process on the other end of the channel keeps about it.   *)
(* XRE_IsContentProcess() is fixed per behaviour (isContent): Spec is a     *)
(* content process, SpecParent the parent process.                         *)
(*   - in a content process the peer is the parent process, which sends    *)
(*     contexts and answers unsubscribe requests;                          *)
(*   - in the parent process the peer is a content process, which is told  *)
(*     of deaths and acknowledges them. Content processes do not interact: *)
(*     the parent keeps a subscription, an epoch and the acknowledgements  *)
(*     owed per process, so one of them stands for each.                   *)
(*                                                                         *)
(* SpecTree is the context tree of mozilla::BrowsingContext (docshell/base/ *)
(* BrowsingContext.cpp): the table of contexts by identifier, the root     *)
(* list and the child lists, with GetOrCreate, Attach, Detach and SetName, *)
(* in a content process or in the parent process.                          *)
(*                                                                         *)
(* SpecSets is the table of RelatedContextSet objects of a process         *)
(* (docshell/base/RelatedContextSet.cpp): construction, the chrome set,    *)
(* reference counting, destruction and the clearing of the table at        *)
(* shutdown.                                                               *)
(*                                                                         *)
(* SpecRefCnt is the parent process's contexts with the values AddRef and   *)
(* Release return; SpecInProcess is the in-process actor pair of            *)
(* ipc/glue/InProcessParent.cpp: Singleton, Startup and Observe.            *)
(***************************************************************************)
EXTENDS Integers, Sequences, FiniteSets, TLC

\* Bounds of the model.
NumContexts == 3
MaxRefCnt == 2
MaxEpoch == 3
NumIds == 2

\* nullptr, as a context identifier.
NoCtx == 0

Ctx == 1..NumContexts

\* Addresses of BrowsingContext objects of the tree (docshell/base/
\* BrowsingContext.cpp; no more objects than identifiers exist at a time),
\* identifiers and names.
Obj == 1..NumIds
Ids == 1..NumIds
Names == {"", "a"}

VARIABLES
  isContent,      \* XRE_IsContentProcess()
  crashed,        \* the process dereferenced a null mParent
  asserted,       \* Die() was called on a Dead context
  alive,          \* the BrowsingContext objects that are allocated
  mRefCnt,        \* BrowsingContext::mRefCnt
  mState,         \* BrowsingContext::mState
  mParent,        \* BrowsingContext::mParent (NoCtx: nullptr)
  mAllChildren,   \* BrowsingContext::mAllChildren
  mLiveChildren,  \* BrowsingContext::mLiveChildren
  retired,        \* identifiers of contexts that have died
  gstate,         \* subscription state of the process's RelatedContextSet
  mEpoch,         \* the set's epoch in this process
  liveCount,      \* contexts of the set with a registered live reference
  toParent,       \* channel to the parent: UnsubscribeGroup requests
  toChild,        \* channel to the content process: contexts and replies
  subscribed,     \* parent: the content process is in the set's subscriber list
  authEpoch,      \* parent: the epoch last sent to the content process
  connected,      \* parent: the channel to the content process is open
  awaiting,       \* parent: dead contexts the content process has yet to acknowledge
  quiesced        \* no further reference or context will arrive

\* The context tree of mozilla::BrowsingContext.
VARIABLES
  bcAlive,                \* the objects that are allocated
  mBrowsingContextId,     \* BrowsingContext::mBrowsingContextId
  mName,                  \* BrowsingContext::mName
  bcRefCnt,               \* the object's reference count
  bcParent,               \* BrowsingContext::mParent, a WeakPtr (NoCtx: null)
  mChildren,              \* BrowsingContext::mChildren, first to last
  sRootBrowsingContexts,  \* the list of roots, first to last
  sBrowsingContexts,      \* the table from identifier to object (NoCtx: none)
  bcAsserted,             \* a MOZ_DIAGNOSTIC_ASSERT of the tree has failed
  bcDangling,             \* a method used its object after the object was deleted
  nameGiven,              \* per object, the name last given to it
  nameGot,                \* the name the last GetName returned
  sentNow,                \* the messages the last call sent to the parent process
  lastOp,                 \* the last call made
  snap                    \* the tree as it was before the last call, for the
                          \* calls Attach, Detach, GetOrCreate, SetName, GetName

lifeVars == <<crashed, asserted, alive, mRefCnt, mState, mParent, mAllChildren,
              mLiveChildren, retired, gstate, mEpoch, liveCount, toParent,
              toChild, subscribed, authEpoch, connected, awaiting,
              quiesced>>

treeVars == <<bcAlive, mBrowsingContextId, mName, bcRefCnt, bcParent, mChildren,
              sRootBrowsingContexts, sBrowsingContexts, bcAsserted, bcDangling,
              nameGiven,
              nameGot, sentNow,
              lastOp, snap>>


States == {"Active", "Background", "Dead"}
GroupStates == {"None", "Subscribed", "UnsubscribePending", "Unsubscribed"}

----------------------------------------------------------------------------
\* Sequence helpers.

RECURSIVE RemoveElement(_, _)
\* nsTArray::RemoveElement: drops the first occurrence of x, if any.
RemoveElement(s, x) ==
  IF s = <<>> THEN <<>>
  ELSE IF Head(s) = x THEN Tail(s)
  ELSE <<Head(s)>> \o RemoveElement(Tail(s), x)

Max(a, b) == IF a >= b THEN a ELSE b

MaxOf(S) == IF S = {} THEN 0 ELSE CHOOSE x \in S : \A y \in S : y <= x

----------------------------------------------------------------------------
\* The heap and set state as one value, so that the methods, which call one
\* another, are functions from state to state.

Cur ==
  [content |-> isContent, alive |-> alive, ref |-> mRefCnt, st |-> mState,
   par |-> mParent, all |-> mAllChildren, live |-> mLiveChildren,
   gs |-> gstate, ep |-> mEpoch, lc |-> liveCount, sent |-> <<>>]

IsDead(h, c) == h.st[c] = "Dead"

\* Mutant of RegisterContextRef: the pending unsubscription is dropped but the
\* epoch is not raised.
RegisterContextRefKeepsEpoch(h, c) ==
  [h EXCEPT !.lc = @ + 1,
            !.gs = IF h.gs = "UnsubscribePending" THEN "Subscribed" ELSE @]

\* RelatedContextSet::RegisterContextRef: a context of the set got its first
\* live reference. A pending unsubscription is aborted by a new epoch.
RegisterContextRef(h, c) ==
  [h EXCEPT !.lc = @ + 1,
            !.ep = IF h.gs = "UnsubscribePending" THEN @ + 1 ELSE @,
            !.gs = IF h.gs = "UnsubscribePending" THEN "Subscribed" ELSE @]

\* RelatedContextSet::UnregisterContextRef: a context of the set lost its last
\* live reference. At zero a content process asks the parent to unsubscribe.
UnregisterContextRef(h, c) ==
  LET n == h.lc - 1 IN
  IF h.content /\ n = 0
  THEN [h EXCEPT !.lc = n, !.gs = "UnsubscribePending",
                 !.sent = Append(@, [epoch |-> h.ep])]
  ELSE [h EXCEPT !.lc = n]

\* operator delete after ~BrowsingContext: the object is gone; pointers to it
\* held in other objects' arrays are left as they are.
Destroy(h, c) ==
  [h EXCEPT !.alive = @ \ {c}, !.ref[c] = 0, !.st[c] = "Active",
            !.par[c] = NoCtx, !.all[c] = <<>>, !.live[c] = <<>>]

\* Mutant of AddRef: a set that is flagged as unsubscribing is not told of the
\* first reference.
AddRefSkipsPendingSet(h, c) ==
  LET h1 == [h EXCEPT !.ref[c] = @ + 1] IN
  IF h1.ref[c] = 1 /\ ~IsDead(h1, c) /\ h1.gs # "UnsubscribePending"
  THEN RegisterContextRef(h1, c) ELSE h1

\* Mutant of AddRef: a reference taken to a Dead context makes it Active.
AddRefRevives(h, c) ==
  LET h1 == [h EXCEPT !.ref[c] = @ + 1,
                      !.st[c] = IF @ = "Dead" THEN "Active" ELSE @] IN
  IF h1.ref[c] = 1 /\ ~IsDead(h1, c) THEN RegisterContextRef(h1, c) ELSE h1

\* BrowsingContext::AddRef
AddRef(h, c) ==
  LET h1 == [h EXCEPT !.ref[c] = @ + 1] IN
  IF h1.ref[c] = 1 /\ ~IsDead(h1, c) THEN RegisterContextRef(h1, c) ELSE h1

\* Mutant of Release: the set is told at the last but one reference already.
ReleaseUnregistersEarly(h, c) ==
  LET h1 == [h EXCEPT !.ref[c] = @ - 1] IN
  IF h1.ref[c] = 0 /\ IsDead(h1, c) THEN Destroy(h1, c)
  ELSE IF h1.ref[c] <= 1 /\ ~IsDead(h1, c) THEN UnregisterContextRef(h1, c)
  ELSE h1

\* Mutant of Release: the set is never told that the last reference is gone.
ReleaseNeverUnregisters(h, c) ==
  LET h1 == [h EXCEPT !.ref[c] = @ - 1] IN
  IF h1.ref[c] = 0 /\ IsDead(h1, c) THEN Destroy(h1, c) ELSE h1

\* Mutant of Release: a Dead context is kept when its last reference goes.
ReleaseLeaksDead(h, c) ==
  LET h1 == [h EXCEPT !.ref[c] = @ - 1] IN
  IF h1.ref[c] = 0 /\ ~IsDead(h1, c) THEN UnregisterContextRef(h1, c) ELSE h1

\* Mutant of Release: the object is deleted at zero whatever its state.
ReleaseDestroysAtZero(h, c) ==
  LET h1 == [h EXCEPT !.ref[c] = @ - 1] IN
  IF h1.ref[c] = 0 THEN Destroy(h1, c) ELSE h1

\* Mutant of Release: a context that is not Dead is deleted once the set has
\* been told.
ReleaseDestroysUnregistered(h, c) ==
  LET h1 == [h EXCEPT !.ref[c] = @ - 1] IN
  IF h1.ref[c] = 0
  THEN IF IsDead(h1, c) THEN Destroy(h1, c)
       ELSE Destroy(UnregisterContextRef(h1, c), c)
  ELSE h1

\* BrowsingContext::Release
Release(h, c) ==
  LET h1 == [h EXCEPT !.ref[c] = @ - 1] IN
  IF h1.ref[c] = 0
  THEN IF IsDead(h1, c) THEN Destroy(h1, c) ELSE UnregisterContextRef(h1, c)
  ELSE h1

RECURSIVE DieInternal(_, _)
RECURSIVE DieChildren(_, _)
\* The loop of DieInternal over the moved-out child array.
DieChildren(h, children) ==
  IF children = <<>> THEN h
  ELSE DieChildren(DieInternal(h, Head(children)), Tail(children))

\* BrowsingContext::DieInternal
DieInternal(h, c) ==
  LET h1 == AddRef(h, c)                          \* kungFuDeathGrip
      children == h1.all[c]                       \* std::move(mAllChildren)
      h2 == [h1 EXCEPT !.all[c] = <<>>]
      h3 == DieChildren(h2, children)
      h4 == [h3 EXCEPT !.par[c] = NoCtx, !.st[c] = "Dead"]
  IN Release(h4, c)                               \* ~kungFuDeathGrip

\* Mutant of DieOp: the context stays in its parent's arrays.
DieOpKeepsLinks(h, c) == DieInternal(h, c)

\* BrowsingContext::Die, on a context whose mParent is not null.
DieOp(h, c) ==
  LET p == h.par[c]
      h1 == [h EXCEPT !.all[p] = RemoveElement(@, c),
                      !.live[p] = RemoveElement(@, c)]
  IN DieInternal(h1, c)

\* A context is made and put under its parent (NoCtx: a root): it is a child
\* of the parent in both of the parent's collections.
NewContext(h, c, p) ==
  LET h1 == [h EXCEPT !.alive = @ \cup {c}, !.ref[c] = 0, !.st[c] = "Active",
                      !.par[c] = p, !.all[c] = <<>>, !.live[c] = <<>>]
  IN IF p = NoCtx THEN h1
     ELSE [h1 EXCEPT !.all[p] = Append(@, c), !.live[p] = Append(@, c)]

\* The heap and set part of the next state is h.
Commit(h) ==
  /\ alive' = h.alive
  /\ mRefCnt' = h.ref
  /\ mState' = h.st
  /\ mParent' = h.par
  /\ mAllChildren' = h.all
  /\ mLiveChildren' = h.live
  /\ gstate' = h.gs
  /\ mEpoch' = h.ep
  /\ liveCount' = h.lc
  /\ toParent' = toParent \o h.sent

\* The contexts that h2 has marked Dead (or marked and destroyed) since h1.
NewlyDead(h1, h2) ==
  {x \in h1.alive : h1.st[x] # "Dead" /\ (x \notin h2.alive \/ h2.st[x] = "Dead")}

----------------------------------------------------------------------------
\* The context tree: mozilla::BrowsingContext of docshell/base/
\* BrowsingContext.cpp. An object is named by its address; the table
\* sBrowsingContexts maps identifiers to addresses.

TreeCur ==
  [content |-> isContent, alive |-> bcAlive, id |-> mBrowsingContextId,
   name |-> mName, ref |-> bcRefCnt, par |-> bcParent, kids |-> mChildren,
   roots |-> sRootBrowsingContexts, reg |-> sBrowsingContexts,
   bad |-> bcAsserted, uaf |-> bcDangling, sent |-> <<>>]

\* A record of a call: its name, the object it was made on (or returned), the
\* context or identifier passed to it, and whether it is the Detach that directly follows
\* the Attach that inserted the same object.
Call(op, self, arg) == [op |-> op, self |-> self, arg |-> arg, undoes |-> FALSE]
NoOp == Call("none", NoCtx, NoCtx)

\* The tree before any context is made.
NoSnap ==
  [content |-> FALSE, alive |-> {}, id |-> [x \in Obj |-> 0],
   name |-> [x \in Obj |-> ""], ref |-> [x \in Obj |-> 0],
   par |-> [x \in Obj |-> NoCtx], kids |-> [x \in Obj |-> <<>>],
   roots |-> <<>>, reg |-> [i \in Ids |-> NoCtx], bad |-> FALSE,
   uaf |-> FALSE,
   sent |-> <<>>]

\* BrowsingContext::Init, before any context is made.
TreeInit ==
  /\ bcAlive = {}
  /\ mBrowsingContextId = [x \in Obj |-> 0]
  /\ mName = [x \in Obj |-> ""]
  /\ bcRefCnt = [x \in Obj |-> 0]
  /\ bcParent = [x \in Obj |-> NoCtx]
  /\ mChildren = [x \in Obj |-> <<>>]
  /\ sRootBrowsingContexts = <<>>
  /\ sBrowsingContexts = [i \in Ids |-> NoCtx]
  /\ bcAsserted = FALSE
  /\ bcDangling = FALSE
  /\ nameGiven = [x \in Obj |-> ""]
  /\ nameGot = ""
  /\ sentNow = <<>>
  /\ lastOp = NoOp
  /\ snap = NoSnap

InSeq(s, x) == \E i \in 1..Len(s) : s[i] = x

\* LinkedListElement::isInList
isInList(t, h) ==
  InSeq(t.roots, h) \/ \E x \in t.alive : InSeq(t.kids[x], h)

\* Mutant of Unlink: the first element of the list is taken out.
UnlinkFirst(s, h) == IF InSeq(s, h) THEN Tail(s) ELSE s

\* The list s after LinkedListElement::remove() of its element h.
Unlink(s, h) == RemoveElement(s, h)

\* The references that are not the one of the list the object is in.
External(t, h) == t.ref[h] - (IF isInList(t, h) THEN 1 ELSE 0)

BcAddRef(t, h) == [t EXCEPT !.ref[h] = @ + 1]

RECURSIVE BcRelease(_, _)
RECURSIVE BcDestroy(_, _)
RECURSIVE ClearChildren(_, _)

\* AutoCleanLinkedList::clear on h's mChildren: each child is popped from the
\* front, and the list's reference to it dropped.
ClearChildren(t, h) ==
  IF t.kids[h] = <<>> THEN t
  ELSE LET c == Head(t.kids[h])
           t1 == [t EXCEPT !.kids[h] = Tail(@)]
       IN ClearChildren(BcRelease(t1, c), h)

\* Mutant of BcDestroy: the identifier is left in the table.
BcDestroyKeepsEntry(t, h) ==
  LET t1 == [t EXCEPT !.bad = @ \/ isInList(t, h)]
      t2 == ClearChildren(t1, h)
  IN [t2 EXCEPT !.alive = @ \ {h},
                !.par = [x \in Obj |-> IF x = h \/ t2.par[x] = h
                                       THEN NoCtx ELSE t2.par[x]],
                !.id[h] = 0, !.name[h] = "", !.ref[h] = 0, !.kids[h] = <<>>]

\* Mutant of BcDestroy: the parent references to the object are left as
\* they are, as raw pointers would be.
BcDestroyKeepsParent(t, h) ==
  LET t1 == [t EXCEPT !.reg[t.id[h]] = NoCtx,
                      !.bad = @ \/ isInList(t, h)]
      t2 == ClearChildren(t1, h)
  IN [t2 EXCEPT !.alive = @ \ {h},
                !.id[h] = 0, !.name[h] = "", !.ref[h] = 0, !.kids[h] = <<>>]

\* BrowsingContext::~BrowsingContext and the destructors of the members: the
\* identifier leaves the table, the children are let go, and every WeakPtr to
\* the object reads null from now on.
BcDestroy(t, h) ==
  LET t1 == [t EXCEPT !.reg[t.id[h]] = NoCtx,
                      !.bad = @ \/ isInList(t, h)]
      t2 == ClearChildren(t1, h)
  IN [t2 EXCEPT !.alive = @ \ {h},
                !.par = [x \in Obj |-> IF x = h \/ t2.par[x] = h
                                       THEN NoCtx ELSE t2.par[x]],
                !.id[h] = 0, !.name[h] = "", !.ref[h] = 0, !.kids[h] = <<>>]

\* Release of the cycle-collecting reference count: the object is deleted
\* when the count reaches zero.
BcRelease(t, h) ==
  LET t1 == [t EXCEPT !.ref[h] = @ - 1] IN
  IF t1.ref[h] = 0 THEN BcDestroy(t1, h) ELSE t1

\* operator new: the address of the new object, one that is free. Which one
\* is immaterial; the one numbered as the identifier is taken if it is free.
NewAddress(t, id) ==
  IF id \in Obj \ t.alive THEN id
  ELSE CHOOSE x \in Obj \ t.alive : \A y \in Obj \ t.alive : x <= y

\* Mutant of Construct: the object does not enter the table.
ConstructUnregistered(t, h, id, name) ==
  [t EXCEPT !.alive = @ \cup {h}, !.id[h] = id, !.name[h] = name,
            !.ref[h] = 0, !.par[h] = NoCtx, !.kids[h] = <<>>]

\* BrowsingContext::BrowsingContext(uint64_t, const nsAString&): the object at
\* address h registers itself under its identifier.
Construct(t, h, id, name) ==
  [t EXCEPT !.alive = @ \cup {h}, !.id[h] = id, !.name[h] = name,
            !.ref[h] = 0, !.par[h] = NoCtx, !.kids[h] = <<>>,
            !.reg[id] = h]

\* BrowsingContext::Get: the object the table holds for id (NoCtx: null).
GetResult(t, id) == t.reg[id]

GetOp(t, id) ==
  IF GetResult(t, id) # NoCtx THEN BcAddRef(t, GetResult(t, id)) ELSE t

\* Mutant of GetOrCreateOp: the table is not consulted.
GetOrCreateAlwaysCreates(t, id, name) ==
  LET h == NewAddress(t, id) IN BcAddRef(Construct(t, h, id, name), h)

\* BrowsingContext::GetOrCreate
GetOrCreateOp(t, id, name) ==
  IF t.reg[id] # NoCtx THEN BcAddRef(t, t.reg[id])
  ELSE LET h == NewAddress(t, id) IN BcAddRef(Construct(t, h, id, name), h)

\* The object GetOrCreate returns, in the heap t it leaves.
GetOrCreateResult(t, id) == t.reg[id]

\* LinkedList::insertBack of h in the list of p (NoCtx: the root list); the
\* list holds a RefPtr.
insertBack(t, p, h) ==
  LET t1 == IF p = NoCtx THEN [t EXCEPT !.roots = Append(@, h)]
                         ELSE [t EXCEPT !.kids[p] = Append(@, h)]
  IN BcAddRef(t1, h)

\* LinkedListElement::remove: h leaves the list it is in, whose RefPtr goes.
remove(t, h) ==
  LET t1 == [t EXCEPT !.roots = Unlink(@, h),
                      !.kids = [x \in Obj |-> Unlink(t.kids[x], h)]]
  IN BcRelease(t1, h)

\* Mutant of AttachMessage: the parent's identifier is left out.
AttachMessageNoParent(t, h) ==
  [type |-> "attach", parent |-> 0, id |-> t.id[h], name |-> t.name[h]]

\* The arguments of SendAttachBrowsingContext.
AttachMessage(t, h) ==
  [type |-> "attach",
   parent |-> IF t.par[h] # NoCtx THEN t.id[t.par[h]] ELSE 0,
   id |-> t.id[h], name |-> t.name[h]]

\* The arguments of SendDetachBrowsingContext.
DetachMessage(t, h) ==
  [type |-> "detach", parent |-> 0, id |-> t.id[h], name |-> ""]

\* Mutant of AttachOp: the membership test is left out.
AttachOpUnguarded(t, h, p) ==
  LET t1 == insertBack(t, p, h)
      t2 == [t1 EXCEPT !.par[h] = p]
  IN IF ~t.content THEN t2
     ELSE [t2 EXCEPT !.sent = Append(@, AttachMessage(t2, h))]

\* BrowsingContext::Attach
AttachOp(t, h, p) ==
  IF isInList(t, h) THEN [t EXCEPT !.bad = @ \/ t.reg[t.id[h]] = NoCtx]
  ELSE LET t1 == insertBack(t, p, h)
           t2 == [t1 EXCEPT !.par[h] = p]
       IN IF ~t.content THEN t2
          ELSE [t2 EXCEPT !.sent = Append(@, AttachMessage(t2, h))]

\* Mutant of DetachOp: the notification is sent before the membership test.
DetachOpAlwaysSends(t, h) ==
  LET t1 == BcAddRef(t, h)
      t2 == IF isInList(t1, h) THEN remove(t1, h) ELSE t1
      t3 == IF ~t.content THEN t2
            ELSE [t2 EXCEPT !.sent = Append(@, DetachMessage(t2, h)),
                            !.uaf = @ \/ h \notin t2.alive]
  IN BcRelease(t3, h)

\* Mutant of DetachOp: no reference is held for the call, so remove() may
\* delete the object before Id() is read for the message.
DetachOpNoDeathGrip(t, h) ==
  IF ~isInList(t, h) THEN t
  ELSE LET t3 == remove(t, h)
       IN IF ~t.content THEN t3
          ELSE [t3 EXCEPT !.sent = Append(@, DetachMessage(t3, h)),
                          !.uaf = @ \/ h \notin t3.alive]

\* BrowsingContext::Detach. Id() is read from the object after remove().
DetachOp(t, h) ==
  LET t1 == BcAddRef(t, h)                        \* kungFuDeathGrip
      t2 == IF ~isInList(t1, h) THEN t1
            ELSE LET t3 == remove(t1, h)
                 IN IF ~t.content THEN t3
                    ELSE [t3 EXCEPT !.sent = Append(@, DetachMessage(t3, h)),
                                    !.uaf = @ \/ h \notin t3.alive]
  IN BcRelease(t2, h)                             \* ~kungFuDeathGrip

\* Mutant of SetNameOp: the name is not stored.
SetNameOpIgnored(t, h, name) == t

\* BrowsingContext::SetName
SetNameOp(t, h, name) == [t EXCEPT !.name[h] = name]

\* BrowsingContext::GetName: the string written to the out-parameter.
GetNameResult(t, h) == t.name[h]

RECURSIVE Subtree(_, _)
\* h and the contexts below it.
Subtree(t, h) ==
  {h} \cup UNION {Subtree(t, t.kids[h][i]) : i \in 1..Len(t.kids[h])}

\* The tree part of the next state is t.
TreeCommit(t) ==
  /\ bcAlive' = t.alive
  /\ mBrowsingContextId' = t.id
  /\ mName' = t.name
  /\ bcRefCnt' = t.ref
  /\ bcParent' = t.par
  /\ mChildren' = t.kids
  /\ sRootBrowsingContexts' = t.roots
  /\ sBrowsingContexts' = t.reg
  /\ bcAsserted' = t.bad
  /\ bcDangling' = t.uaf
  /\ sentNow' = t.sent

----------------------------------------------------------------------------
\* RelatedContextSet (docshell/base/RelatedContextSet.cpp): the sets a process
\* knows, their table and the chrome set.

\* Bounds of the sets.
NumSets == 2
NumMembers == 1

\* Addresses of RelatedContextSet objects (0: nullptr), the BrowsingContext
\* objects that are members of sets, and the threads of the process.
SetObj == 1..NumSets
NoSet == 0
Members == 1..NumMembers
Threads == {"main", "other"}

VARIABLES
  rcsAlive,       \* the RelatedContextSet objects that are allocated
  mUniqueID,      \* RelatedContextSet::mUniqueID
  rcsRefCnt,      \* the set's reference count
  mContexts,      \* RelatedContextSet::mContexts
  sKnownSets,     \* the table of known sets: ptr (non-null) and its entries
  sChromeSet,     \* RelatedContextSet::sChromeSet (NoSet: nullptr)
  chromeMade,     \* the sets that exist and were made by ChromeContextSet
  shutDown,       \* the ClearOnShutdown pass has run
  rcsAbort,       \* the MOZ_RELEASE_ASSERT that ended the process ("": none)
  rcsAsserted,    \* a set's destructor ran with mContexts not empty
  memberAlive,    \* the member BrowsingContext objects that are allocated
  mContextSet,    \* BrowsingContext::mContextSet, a raw pointer
  rcsSent,        \* the Unsubscribe calls made by the last call
  rcsLast         \* the last call made on the sets

rcsVars == <<rcsAlive, mUniqueID, rcsRefCnt, mContexts, sKnownSets, sChromeSet,
             chromeMade,
             shutDown, rcsAbort, rcsAsserted, memberAlive, mContextSet,
             rcsSent, rcsLast>>

\* The sets of the process as one value.
SetCur ==
  [content |-> isContent, alive |-> rcsAlive, id |-> mUniqueID,
   ref |-> rcsRefCnt, ctxs |-> mContexts, known |-> sKnownSets,
   chrome |-> sChromeSet, made |-> chromeMade, abort |-> rcsAbort,
   bad |-> rcsAsserted, sent |-> <<>>]

\* A record of a call on the sets: its name, the set it made, returned or was
\* made on, the identifier passed, what the table held for that identifier
\* (for ChromeContextSet: what sChromeSet held) before the call, and the
\* thread the call was made on.
SetCall(op, self, id, prev, thread) ==
  [op |-> op, self |-> self, id |-> id, prev |-> prev, thread |-> thread]

\* Before the first set: sKnownSets and sChromeSet are null.
SetInit ==
  /\ rcsAlive = {}
  /\ mUniqueID = [s \in SetObj |-> 0]
  /\ rcsRefCnt = [s \in SetObj |-> 0]
  /\ mContexts = [s \in SetObj |-> {}]
  /\ sKnownSets = [ptr |-> FALSE, at |-> [i \in Ids |-> NoSet]]
  /\ sChromeSet = NoSet
  /\ chromeMade = {}
  /\ shutDown = FALSE
  /\ rcsAbort = ""
  /\ rcsAsserted = FALSE
  /\ memberAlive = {}
  /\ mContextSet = [m \in Members |-> NoSet]
  /\ rcsSent = <<>>
  /\ rcsLast = SetCall("none", NoSet, 0, NoSet, "main")

\* Mutant of SetConstruct: the duplicate is not asserted against; orInsert
\* leaves the entry that exists.
SetConstructUnchecked(t, s, id) ==
  LET t1 == [t EXCEPT !.known.ptr = TRUE] IN
  [t1 EXCEPT !.alive = @ \cup {s}, !.id[s] = id, !.ref[s] = 0, !.ctxs[s] = {},
             !.known.at[id] = IF @ = NoSet THEN s ELSE @]

\* RelatedContextSet::RelatedContextSet(uint64_t): the set at address s enters
\* the table under id, the table being made first if there is none; a second
\* set for an identifier ends the process.
SetConstruct(t, s, id) ==
  LET t1 == [t EXCEPT !.known.ptr = TRUE] IN
  IF t1.known.at[id] # NoSet
  THEN [t1 EXCEPT !.abort = "DuplicateID"]
  ELSE [t1 EXCEPT !.alive = @ \cup {s}, !.id[s] = id, !.ref[s] = 0,
                  !.ctxs[s] = {}, !.known.at[id] = s]

\* What the destructor does after the table: sChromeSet is cleared if it is
\* this set, a content process unsubscribes, the object is gone. The call of
\* ContentChild::Unsubscribe is recorded with the identifier passed and
\* whether the table held the identifier when the call was made.
SetDestroyTail(t, s, clears) ==
  LET t1 == IF clears /\ t.chrome = s THEN [t EXCEPT !.chrome = NoSet] ELSE t
      t2 == IF t1.content
            THEN [t1 EXCEPT !.sent =
                    Append(@, [id |-> t.id[s],
                               listed |-> t.known.at[t.id[s]] # NoSet])]
            ELSE t1
  IN [t2 EXCEPT !.alive = @ \ {s}, !.id[s] = 0, !.ref[s] = 0, !.ctxs[s] = {}]

\* Mutant of SetDestroy: sChromeSet is left as it is.
SetDestroyKeepsChrome(t, s) ==
  LET t1 == [t EXCEPT !.bad = @ \/ t.ctxs[s] # {}] IN
  IF ~t1.known.ptr THEN SetDestroyTail(t1, s, FALSE)
  ELSE IF t1.known.at[t.id[s]] = NoSet THEN [t1 EXCEPT !.abort = "NotFound"]
  ELSE SetDestroyTail([t1 EXCEPT !.known.at[t.id[s]] = NoSet], s, FALSE)

\* Mutant of SetDestroy: the rest of the destructor runs before the
\* identifier is removed from the table.
SetDestroyUnsubscribesFirst(t, s) ==
  LET t1 == [t EXCEPT !.bad = @ \/ t.ctxs[s] # {}]
      t2 == SetDestroyTail(t1, s, TRUE)
  IN IF ~t1.known.ptr THEN t2
     ELSE IF t1.known.at[t.id[s]] = NoSet THEN [t1 EXCEPT !.abort = "NotFound"]
     ELSE [t2 EXCEPT !.known.at[t.id[s]] = NoSet]

\* Mutant of SetDestroy: the identifier is left in the table.
SetDestroyKeepsEntry(t, s) ==
  SetDestroyTail([t EXCEPT !.bad = @ \/ t.ctxs[s] # {}], s, TRUE)

\* RelatedContextSet::~RelatedContextSet: if there is a table the identifier
\* is removed from it, and the process ends if it was not there.
SetDestroy(t, s) ==
  LET t1 == [t EXCEPT !.bad = @ \/ t.ctxs[s] # {}] IN
  IF ~t1.known.ptr THEN SetDestroyTail(t1, s, TRUE)
  ELSE IF t1.known.at[t.id[s]] = NoSet THEN [t1 EXCEPT !.abort = "NotFound"]
  ELSE SetDestroyTail([t1 EXCEPT !.known.at[t.id[s]] = NoSet], s, TRUE)

\* AddRef and Release of the set; the set is deleted when the count reaches
\* zero.
SetAddRef(t, s) == [t EXCEPT !.ref[s] = @ + 1]

SetRelease(t, s) ==
  LET t1 == [t EXCEPT !.ref[s] = @ - 1] IN
  IF t1.ref[s] = 0 THEN SetDestroy(t1, s) ELSE t1

\* nsContentUtils::GenerateRelatedContextSetId: an identifier no set of the
\* process has; the least one.
FreeSetIds(t) ==
  {i \in Ids : t.known.at[i] = NoSet /\ \A s \in t.alive : t.id[s] # i}

GenerateRelatedContextSetId(t) ==
  CHOOSE i \in FreeSetIds(t) : \A j \in FreeSetIds(t) : i <= j

\* operator new: the least free address.
NewSetAddress(t) ==
  CHOOSE s \in SetObj \ t.alive : \A r \in SetObj \ t.alive : s <= r

\* Mutant of ChromeContextSetOp: a set is made at every call.
ChromeContextSetAlwaysNew(t) ==
  IF t.content THEN [t EXCEPT !.abort = "ChromeInContent"]
  ELSE LET s == NewSetAddress(t)
           t1 == SetConstruct(t, s, GenerateRelatedContextSetId(t))
       IN SetAddRef([t1 EXCEPT !.chrome = s, !.made = @ \cup {s}], s)

\* RelatedContextSet::ChromeContextSet
ChromeContextSetOp(t) ==
  IF t.content THEN [t EXCEPT !.abort = "ChromeInContent"]
  ELSE LET t1 == IF t.chrome # NoSet THEN t
                 ELSE LET s == NewSetAddress(t)
                      IN [SetConstruct(t, s, GenerateRelatedContextSetId(t))
                            EXCEPT !.chrome = s, !.made = @ \cup {s}]
       IN SetAddRef(t1, t1.chrome)

\* The value written back to the variables.
SetCommit(t) ==
  /\ rcsAlive' = t.alive
  /\ mUniqueID' = t.id
  /\ rcsRefCnt' = t.ref
  /\ mContexts' = t.ctxs
  /\ sKnownSets' = t.known
  /\ sChromeSet' = t.chrome
  /\ chromeMade' = t.made \cap t.alive
  /\ rcsAbort' = t.abort
  /\ rcsAsserted' = t.bad
  /\ rcsSent' = t.sent

----------------------------------------------------------------------------
\* The in-process actor pair (ipc/glue/InProcessParent.cpp).

\* Bound: the calls of Startup that make actors.
MaxStartups == 12

\* Actors are numbered by the call of Startup that made them (0: nullptr).
Actors == 1..MaxStartups
NoActor == 0

VARIABLES
  parentSingleton,  \* InProcessParent::sSingleton
  childSingleton,   \* InProcessChild::sSingleton
  sShutdown,        \* InProcessParent::sShutdown
  ipMade,           \* the number of actor pairs made so far
  ipObserver,       \* the InProcessParent registered for the shutdown topic
  ipOpen,           \* the channel between the two singletons is open
  ipObserved,       \* the shutdown notification has been observed
  ipCrashed,        \* MOZ_CRASH("Failed to open InProcessChild!")
  ipLast            \* the last call and the actor it returned

ipVars == <<parentSingleton, childSingleton, sShutdown, ipMade, ipObserver,
            ipOpen, ipObserved, ipCrashed, ipLast>>

\* The statics of the pair as one value.
IpCur ==
  [parent |-> parentSingleton, child |-> childSingleton, shut |-> sShutdown,
   made |-> ipMade, obs |-> ipObserver, open |-> ipOpen, crashed |-> ipCrashed]

IpCall(op, result) == [op |-> op, result |-> result]

IpInit ==
  /\ parentSingleton = NoActor
  /\ childSingleton = NoActor
  /\ sShutdown = FALSE
  /\ ipMade = 0
  /\ ipObserver = NoActor
  /\ ipOpen = FALSE
  /\ ipObserved = FALSE
  /\ ipCrashed = FALSE
  /\ ipLast = IpCall("none", NoActor)

\* Mutant of StartupOp: sShutdown is not looked at.
StartupOpIgnoresShutdown(t, hasObs, addOk, openOk) ==
  IF ~hasObs THEN [t EXCEPT !.shut = TRUE]
  ELSE LET a == t.made + 1
           t1 == [t EXCEPT !.made = a]
       IN IF ~addOk THEN t1
          ELSE IF ~openOk THEN [t1 EXCEPT !.obs = a, !.crashed = TRUE]
          ELSE [t1 EXCEPT !.obs = a, !.open = TRUE, !.parent = a, !.child = a]

\* InProcessParent::Startup. hasObs: GetObserverService() returns a service;
\* addOk: AddObserver succeeds; openOk: OpenOnSameThread succeeds.
StartupOp(t, hasObs, addOk, openOk) ==
  IF t.shut THEN t
  ELSE IF ~hasObs THEN [t EXCEPT !.shut = TRUE]
  ELSE LET a == t.made + 1
           t1 == [t EXCEPT !.made = a]
       IN IF ~addOk THEN t1
          ELSE IF ~openOk THEN [t1 EXCEPT !.obs = a, !.crashed = TRUE]
          ELSE [t1 EXCEPT !.obs = a, !.open = TRUE, !.parent = a, !.child = a]

\* InProcessParent::Singleton
ParentSingletonOp(t, hasObs, addOk, openOk) ==
  IF t.parent = NoActor THEN StartupOp(t, hasObs, addOk, openOk) ELSE t

\* InProcessChild::Singleton
ChildSingletonOp(t, hasObs, addOk, openOk) ==
  IF t.child = NoActor THEN StartupOp(t, hasObs, addOk, openOk) ELSE t

\* Mutant of ObserveOp: the child singleton is left set.
ObserveOpKeepsChild(t) ==
  [t EXCEPT !.shut = TRUE, !.open = FALSE, !.parent = NoActor]

\* InProcessParent::Observe
ObserveOp(t) ==
  [t EXCEPT !.shut = TRUE, !.open = FALSE, !.parent = NoActor,
            !.child = NoActor]

IpCommit(t) ==
  /\ parentSingleton' = t.parent
  /\ childSingleton' = t.child
  /\ sShutdown' = t.shut
  /\ ipMade' = t.made
  /\ ipObserver' = t.obs
  /\ ipOpen' = t.open
  /\ ipCrashed' = t.crashed

\* The last AddRef or Release a holder called on a BrowsingContext and the
\* count it returned.
VARIABLES lastRef

countVars == <<lastRef>>

RefCall(op, self, count) == [op |-> op, self |-> self, count |-> count]

vars == <<isContent, lifeVars, treeVars, rcsVars, countVars, ipVars>>

----------------------------------------------------------------------------
InitProcess(content) ==
  /\ isContent = content
  /\ crashed = FALSE
  /\ asserted = FALSE
  /\ alive = {}
  /\ mRefCnt = [c \in Ctx |-> 0]
  /\ mState = [c \in Ctx |-> "Active"]
  /\ mParent = [c \in Ctx |-> NoCtx]
  /\ mAllChildren = [c \in Ctx |-> <<>>]
  /\ mLiveChildren = [c \in Ctx |-> <<>>]
  /\ retired = {}
  /\ gstate = IF isContent THEN "None" ELSE "Subscribed"
  /\ mEpoch = 0
  /\ liveCount = 0
  /\ toParent = <<>>
  /\ toChild = <<>>
  /\ subscribed = FALSE
  /\ authEpoch = 0
  /\ connected = TRUE
  /\ awaiting = {}
  /\ quiesced = FALSE
  /\ TreeInit
  /\ SetInit
  /\ lastRef = RefCall("none", NoCtx, 0)
  /\ IpInit

Init == InitProcess(TRUE)
InitParent == InitProcess(FALSE)

Running == ~crashed /\ ~asserted

\* nsContentUtils::GenerateBrowsingContextId: identifiers come from a counter,
\* so the contexts a process hears of are numbered in the order it hears of
\* them. KnownIds are the identifiers in use so far.
KnownIds == alive \cup retired \cup {toChild[i].id : i \in 1..Len(toChild)}
FreshId == MaxOf(KnownIds) + 1

heapVars == <<alive, mRefCnt, mState, mParent, mAllChildren, mLiveChildren,
              gstate, mEpoch, liveCount, toParent>>
peerVars == <<subscribed, authEpoch, connected, awaiting>>

\* Some holder takes a reference to a context it can reach. While the set is
\* flagged as unsubscribing its contexts appear dead to local code, so a
\* context nobody references is then out of reach.
LocalAddRef(c) ==
  /\ Running /\ ~quiesced
  /\ c \in alive
  /\ mRefCnt[c] < MaxRefCnt
  /\ mRefCnt[c] = 0 => gstate # "UnsubscribePending"
  /\ Commit(AddRef(Cur, c))
  /\ UNCHANGED <<ipVars, countVars, rcsVars, treeVars, isContent, crashed, asserted, retired, toChild, peerVars, quiesced>>

\* Some holder drops a reference.
LocalRelease(c) ==
  /\ Running
  /\ c \in alive
  /\ mRefCnt[c] > 0
  /\ Commit(Release(Cur, c))
  /\ UNCHANGED <<ipVars, countVars, rcsVars, treeVars, isContent, crashed, asserted, retired, toChild, peerVars, quiesced>>

\* Die() is called on a context. In the parent process every subscribed
\* content process is told of each context that died.
Die(c) ==
  /\ Running /\ ~quiesced
  /\ c \in alive
  /\ mState[c] # "Dead"
  /\ \A i \in 1..Len(toChild) : toChild[i].id # c
  /\ IF mParent[c] = NoCtx
     THEN /\ crashed' = TRUE
          /\ UNCHANGED <<heapVars, retired, awaiting>>
     ELSE LET h == DieOp(Cur, c)
              dead == NewlyDead(Cur, h)
          IN /\ Commit(h)
             /\ retired' = retired \cup dead
             /\ awaiting' = IF ~isContent /\ subscribed
                            THEN awaiting \cup dead ELSE awaiting
             /\ UNCHANGED crashed
  /\ UNCHANGED <<ipVars, countVars, rcsVars, treeVars, isContent, asserted, toChild, subscribed, authEpoch,
                 connected, quiesced>>

\* Die() is called on a context that is Dead: MOZ_ASSERT(mState !=
\* State::Dead) fails (and mParent, which is null, would be dereferenced).
DieOnDead(c) ==
  /\ Running /\ ~quiesced
  /\ c \in alive
  /\ mState[c] = "Dead"
  /\ asserted' = TRUE
  /\ UNCHANGED <<ipVars, countVars, rcsVars, treeVars, isContent, crashed, heapVars, retired, toChild,
                 peerVars, quiesced>>

\* The parent sends context c to the content process, which becomes
\* subscribed to the set; the context travels with the set's next epoch. A
\* dead context is sent as null, so only contexts that have not died are sent.
AuthSendContext(c) ==
  /\ Running /\ ~quiesced
  /\ connected
  /\ authEpoch < MaxEpoch
  /\ IF isContent THEN c \notin retired /\ c <= FreshId
                  ELSE c \in alive /\ mState[c] # "Dead"
  /\ subscribed' = TRUE
  /\ authEpoch' = authEpoch + 1
  /\ toChild' = IF isContent
                THEN Append(toChild, [type |-> "ctx", id |-> c,
                                      epoch |-> authEpoch + 1, ok |-> TRUE])
                ELSE toChild
  /\ UNCHANGED <<ipVars, countVars, rcsVars, treeVars, isContent, crashed, asserted, heapVars, retired, connected, awaiting, quiesced>>

\* The content process reads a context off the channel into a RefPtr. The set
\* is made if the process does not know it, the context if it is not
\* registered (under parent q), and the epoch sent along is recorded.
RecvContextOp(h, m, q) ==
  LET h1 == IF h.gs \in {"None", "Unsubscribed"}
            THEN [h EXCEPT !.gs = "Subscribed", !.ep = m.epoch, !.lc = 0]
            ELSE h
      h2 == IF m.id \in h1.alive THEN h1 ELSE NewContext(h1, m.id, q)
      h3 == AddRef(h2, m.id)
  IN [h3 EXCEPT !.ep = Max(@, m.epoch)]

RecvContext(q) ==
  /\ Running /\ isContent
  /\ toChild # <<>>
  /\ Head(toChild).type = "ctx"
  /\ LET m == Head(toChild) IN
       /\ mRefCnt[m.id] < MaxRefCnt
       /\ IF m.id \in alive THEN q = NoCtx
          ELSE q = NoCtx \/ (q \in alive /\ mState[q] # "Dead")
       /\ Commit(RecvContextOp(Cur, m, q))
  /\ toChild' = Tail(toChild)
  /\ UNCHANGED <<ipVars, countVars, rcsVars, treeVars, isContent, crashed, asserted, retired, peerVars, quiesced>>

\* Mutant of UnsubscribeMatches: every request succeeds.
UnsubscribeMatchesAlways(e) == TRUE

\* Parent: whether an unsubscribe request carrying epoch e succeeds.
UnsubscribeMatches(e) == e = authEpoch

\* Parent: whether the content process is subscribed after the request.
SubscribedAfterUnsubscribe(e) ==
  IF UnsubscribeMatches(e) THEN FALSE ELSE subscribed

\* The parent handles UnsubscribeGroup(set, e) from the content process and
\* replies. With the content process modelled the request is the head of its
\* channel; otherwise the subscribed process asks with an epoch it was sent.
AuthRecvUnsubscribe(e) ==
  /\ Running
  /\ connected
  /\ IF isContent
     THEN /\ toParent # <<>>
          /\ e = Head(toParent).epoch
          /\ toParent' = Tail(toParent)
          /\ toChild' = Append(toChild, [type |-> "ack", id |-> NoCtx, epoch |-> e,
                                         ok |-> UnsubscribeMatches(e)])
     ELSE /\ subscribed
          /\ e \in 1..authEpoch
          /\ UNCHANGED <<toParent, toChild>>
  /\ subscribed' = SubscribedAfterUnsubscribe(e)
  /\ UNCHANGED <<ipVars, countVars, rcsVars, treeVars, isContent, crashed, asserted, alive, mRefCnt, mState, mParent, mAllChildren,
                 mLiveChildren, retired, gstate, mEpoch, liveCount, authEpoch,
                 connected, awaiting, quiesced>>

\* Mutant of AckAccepted: the reply's epoch is not compared.
AckAcceptedIgnoresEpoch(h, m) == m.ok

\* Content process: whether the reply m completes the unsubscription.
AckAccepted(h, m) == m.ok /\ m.epoch = h.ep

RECURSIVE DestroyAll(_, _)
DestroyAll(h, S) ==
  IF S = {} THEN h
  ELSE LET c == CHOOSE x \in S : TRUE IN DestroyAll(Destroy(h, c), S \ {c})

\* Content process: the set is unsubscribed and everything it retained is
\* freed. Dead contexts are owned by their references alone.
FreeSet(h) ==
  LET h1 == DestroyAll(h, {c \in h.alive : ~IsDead(h, c)})
  IN [h1 EXCEPT !.gs = "Unsubscribed", !.lc = 0]

\* Content process: the reply to an unsubscribe request.
RecvAckOp(h, m) == IF AckAccepted(h, m) THEN FreeSet(h) ELSE h

RecvAck ==
  /\ Running /\ isContent
  /\ toChild # <<>>
  /\ Head(toChild).type = "ack"
  /\ Commit(RecvAckOp(Cur, Head(toChild)))
  /\ toChild' = Tail(toChild)
  /\ UNCHANGED <<ipVars, countVars, rcsVars, treeVars, isContent, crashed, asserted, retired, peerVars, quiesced>>

\* Parent process: a context is created in-process under parent q.
CreateContext(c, q) ==
  /\ Running /\ ~isContent
  /\ c = FreshId
  /\ q = NoCtx \/ (q \in alive /\ mState[q] # "Dead")
  /\ Commit(NewContext(Cur, c, q))
  /\ UNCHANGED <<ipVars, countVars, rcsVars, treeVars, isContent, crashed, asserted, retired, toChild, peerVars, quiesced>>

\* Parent process: the content process acknowledges the death of context c.
AckContextDied(c) ==
  /\ Running /\ ~isContent
  /\ connected
  /\ c \in awaiting
  /\ awaiting' = awaiting \ {c}
  /\ UNCHANGED <<ipVars, countVars, rcsVars, treeVars, isContent, crashed, asserted, heapVars, retired, toChild, subscribed,
                 authEpoch, connected, quiesced>>

\* Mutant of ForceClear: what the departed process owed is kept.
ForceClearKeepsOwed(S) == S

\* Parent process: what the departed content process still holds or owes.
ForceClear(S) == {}

\* Parent process: the channel to the content process closed. Its subscription
\* and the acknowledgements it owed are resolved as if given.
PeerDisconnect ==
  /\ Running /\ ~isContent
  /\ connected
  /\ connected' = FALSE
  /\ subscribed' = FALSE
  /\ awaiting' = ForceClear(awaiting)
  /\ UNCHANGED <<ipVars, countVars, rcsVars, treeVars, isContent, crashed, asserted, heapVars, retired, toChild, authEpoch, quiesced>>

\* Content process: from here on no reference is taken and no context sent.
Quiesce ==
  /\ Running /\ isContent /\ ~quiesced
  /\ gstate \in {"Subscribed", "UnsubscribePending"}
  /\ \A c \in alive : mRefCnt[c] = 0
  /\ \A i \in 1..Len(toChild) : toChild[i].type # "ctx"
  /\ quiesced' = TRUE
  /\ UNCHANGED <<ipVars, countVars, rcsVars, treeVars, isContent, crashed, asserted, heapVars, retired, toChild, peerVars>>

\* A content process and the parent's record of it.
Next ==
  \/ \E c \in Ctx : LocalAddRef(c)
  \/ \E c \in Ctx : LocalRelease(c)
  \/ \E c \in Ctx : Die(c)
  \/ \E c \in Ctx : DieOnDead(c)
  \/ \E c \in Ctx : AuthSendContext(c)
  \/ \E q \in Ctx \cup {NoCtx} : RecvContext(q)
  \/ \E e \in 0..MaxEpoch + 1 : AuthRecvUnsubscribe(e)
  \/ RecvAck
  \/ Quiesce

\* The parent process and a content process it sends contexts to.
NextParent ==
  \/ \E c \in Ctx, q \in Ctx \cup {NoCtx} : CreateContext(c, q)
  \/ \E c \in Ctx : LocalAddRef(c)
  \/ \E c \in Ctx : LocalRelease(c)
  \/ \E c \in Ctx : Die(c)
  \/ \E c \in Ctx : DieOnDead(c)
  \/ \E c \in Ctx : AuthSendContext(c)
  \/ \E e \in 0..MaxEpoch + 1 : AuthRecvUnsubscribe(e)
  \/ \E c \in Ctx : AckContextDied(c)
  \/ PeerDisconnect

Spec == Init /\ [][Next]_vars

SpecParent == InitParent /\ [][NextParent]_vars

\* Mutant of ReleaseResult: the count before the decrement is returned.
ReleaseResultBefore(h, c) == h.ref[c]

\* What BrowsingContext::AddRef returns: count, which is ++mRefCnt.
AddRefResult(h, c) == h.ref[c] + 1

\* What BrowsingContext::Release returns: 0 after delete this, count
\* otherwise, count being --mRefCnt.
ReleaseResult(h, c) ==
  LET count == h.ref[c] - 1 IN
  IF count = 0 /\ IsDead(h, c) THEN 0 ELSE count

\* A holder calls AddRef on c and looks at what it returns.
CountedAddRef(c) ==
  /\ Running
  /\ c \in alive
  /\ mRefCnt[c] < MaxRefCnt
  /\ Commit(AddRef(Cur, c))
  /\ lastRef' = RefCall("AddRef", c, AddRefResult(Cur, c))
  /\ UNCHANGED <<ipVars, rcsVars, treeVars, isContent, crashed, asserted, retired, toChild,
                 peerVars, quiesced>>

\* A holder calls Release on c and looks at what it returns.
CountedRelease(c) ==
  /\ Running
  /\ c \in alive
  /\ mRefCnt[c] > 0
  /\ Commit(Release(Cur, c))
  /\ lastRef' = RefCall("Release", c, ReleaseResult(Cur, c))
  /\ UNCHANGED <<ipVars, rcsVars, treeVars, isContent, crashed, asserted, retired, toChild,
                 peerVars, quiesced>>

\* Release is called on a context whose count is zero: MOZ_ASSERT(
\* int32_t(mRefCnt) > 0, "dup release") fails.
ReleaseAtZero(c) ==
  /\ Running
  /\ c \in alive
  /\ mRefCnt[c] = 0
  /\ asserted' = TRUE
  /\ lastRef' = RefCall("Release", c, 0)
  /\ UNCHANGED <<ipVars, rcsVars, treeVars, isContent, crashed, heapVars, retired, toChild,
                 peerVars, quiesced>>

\* The reference counts of the contexts of the parent process.
NextRefCnt ==
  \/ \E c \in Ctx, q \in Ctx \cup {NoCtx} : CreateContext(c, q)
  \/ \E c \in Ctx : CountedAddRef(c)
  \/ \E c \in Ctx : CountedRelease(c)
  \/ \E c \in Ctx : ReleaseAtZero(c)
  \/ \E c \in Ctx : Die(c)

SpecRefCnt == InitParent /\ [][NextRefCnt]_vars

\* The parent handles every request and its replies are delivered.
SpecLive == Spec /\ WF_vars(\E e \in 0..MaxEpoch + 1 : AuthRecvUnsubscribe(e))
                 /\ WF_vars(RecvAck)

----------------------------------------------------------------------------
\* The calls made on the context tree.

\* The names given to the objects that exist after this call, g being the
\* names given up to and in this call; nothing is kept for an object that is
\* gone.
Given(g) == [x \in Obj |-> IF x \in bcAlive' THEN g[x] ELSE ""]

\* A context is made for a docshell and the caller keeps the reference. The
\* identifier generated is one that no object has; the identifier of an
\* object that is gone can come again, as it can through GetOrCreate.
NewForDocShell ==
  /\ bcAlive # Obj
  /\ \E i \in Ids : sBrowsingContexts[i] = NoCtx
  /\ LET id == CHOOSE i \in Ids : /\ sBrowsingContexts[i] = NoCtx
                                  /\ \A j \in Ids : sBrowsingContexts[j] = NoCtx => i <= j
         h == NewAddress(TreeCur, id)
     IN /\ TreeCommit(BcAddRef(Construct(TreeCur, h, id, ""), h))
        /\ lastOp' = Call("New", h, NoCtx)
        /\ nameGiven' = Given([nameGiven EXCEPT ![h] = ""])
  /\ nameGot' = ""
  /\ snap' = NoSnap
  /\ UNCHANGED <<isContent, lifeVars, rcsVars, countVars, ipVars>>

\* BrowsingContext::Get(id); the caller keeps the reference returned.
Get(id) ==
  /\ GetResult(TreeCur, id) # NoCtx
       => External(TreeCur, GetResult(TreeCur, id)) < MaxRefCnt
  /\ TreeCommit(GetOp(TreeCur, id))
  /\ lastOp' = Call("Get", GetResult(TreeCur, id), id)
  /\ nameGiven' = Given(nameGiven)
  /\ nameGot' = ""
  /\ snap' = NoSnap
  /\ UNCHANGED <<isContent, lifeVars, rcsVars, countVars, ipVars>>

\* BrowsingContext::GetOrCreate(id, name); the caller keeps the reference.
GetOrCreate(id, name) ==
  /\ IF sBrowsingContexts[id] # NoCtx
     THEN External(TreeCur, sBrowsingContexts[id]) < MaxRefCnt
     ELSE bcAlive # Obj
  /\ LET t == GetOrCreateOp(TreeCur, id, name)
     IN /\ TreeCommit(t)
        /\ lastOp' = Call("GetOrCreate", GetOrCreateResult(t, id), NoCtx)
        /\ nameGiven' = Given(IF sBrowsingContexts[id] # NoCtx THEN nameGiven
                               ELSE [nameGiven EXCEPT
                                       ![GetOrCreateResult(t, id)] = name])
  /\ nameGot' = ""
  /\ snap' = TreeCur
  /\ UNCHANGED <<isContent, lifeVars, rcsVars, countVars, ipVars>>

\* A holder drops its reference to h.
ReleaseRef(h) ==
  /\ h \in bcAlive
  /\ External(TreeCur, h) > 0
  /\ TreeCommit(BcRelease(TreeCur, h))
  /\ lastOp' = Call("Release", h, NoCtx)
  /\ nameGiven' = Given(nameGiven)
  /\ nameGot' = ""
  /\ snap' = NoSnap
  /\ UNCHANGED <<isContent, lifeVars, rcsVars, countVars, ipVars>>

\* h->Attach(p), p a context that is not below h, or null.
Attach(h, p) ==
  /\ h \in bcAlive
  /\ p = NoCtx \/ (p \in bcAlive /\ p \notin Subtree(TreeCur, h))
  /\ TreeCommit(AttachOp(TreeCur, h, p))
  /\ lastOp' = Call("Attach", h, p)
  /\ nameGiven' = Given(nameGiven)
  /\ nameGot' = ""
  /\ snap' = TreeCur
  /\ UNCHANGED <<isContent, lifeVars, rcsVars, countVars, ipVars>>

\* h->Detach()
Detach(h) ==
  /\ h \in bcAlive
  /\ TreeCommit(DetachOp(TreeCur, h))
  /\ lastOp' = [Call("Detach", h, NoCtx) EXCEPT
                  !.undoes = lastOp.op = "Attach" /\ lastOp.self = h
                             /\ ~isInList(snap, h)]
  /\ nameGiven' = Given(nameGiven)
  /\ nameGot' = ""
  /\ snap' = TreeCur
  /\ UNCHANGED <<isContent, lifeVars, rcsVars, countVars, ipVars>>

\* h->SetName(name)
SetName(h, name) ==
  /\ h \in bcAlive
  /\ TreeCommit(SetNameOp(TreeCur, h, name))
  /\ lastOp' = Call("SetName", h, NoCtx)
  /\ nameGiven' = Given([nameGiven EXCEPT ![h] = name])
  /\ nameGot' = ""
  /\ snap' = TreeCur
  /\ UNCHANGED <<isContent, lifeVars, rcsVars, countVars, ipVars>>

\* h->GetName(aName)
GetName(h) ==
  /\ h \in bcAlive
  /\ TreeCommit(TreeCur)
  /\ lastOp' = Call("GetName", h, NoCtx)
  /\ nameGiven' = Given(nameGiven)
  /\ nameGot' = GetNameResult(TreeCur, h)
  /\ snap' = TreeCur
  /\ UNCHANGED <<isContent, lifeVars, rcsVars, countVars, ipVars>>

NextTree ==
  \/ NewForDocShell
  \/ \E id \in Ids : Get(id)
  \/ \E id \in Ids, name \in Names : GetOrCreate(id, name)
  \/ \E h \in Obj : ReleaseRef(h)
  \/ \E h \in Obj, p \in Obj \cup {NoCtx} : Attach(h, p)
  \/ \E h \in Obj : Detach(h)
  \/ \E h \in Obj, name \in Names : SetName(h, name)
  \/ \E h \in Obj : GetName(h)

\* The context tree of a process, content or parent.
InitTree == \E b \in BOOLEAN : InitProcess(b)

SpecTree == InitTree /\ [][NextTree]_vars

----------------------------------------------------------------------------
\* The calls made on the sets. A call is made on the main thread or on
\* another; no set is made once shutdown has cleared the table, and nothing is
\* called once a MOZ_RELEASE_ASSERT has ended the process.

SetsRunning == rcsAbort = ""

\* new RelatedContextSet(), the caller keeping the reference.
NewSet(th) ==
  /\ SetsRunning /\ ~shutDown
  /\ rcsAlive # SetObj /\ FreeSetIds(SetCur) # {}
  /\ LET s == NewSetAddress(SetCur)
         id == GenerateRelatedContextSetId(SetCur)
     IN /\ SetCommit(SetAddRef(SetConstruct(SetCur, s, id), s))
        /\ rcsLast' = SetCall("New", s, id, sKnownSets.at[id], th)
  /\ UNCHANGED <<shutDown, memberAlive, mContextSet>>
  /\ UNCHANGED <<isContent, lifeVars, treeVars, countVars, ipVars>>

\* new RelatedContextSet(id) for a set the process is told of, the caller
\* keeping the reference.
NewSetWithId(id, th) ==
  /\ SetsRunning /\ ~shutDown
  /\ rcsAlive # SetObj
  /\ LET s == NewSetAddress(SetCur)
         t == SetConstruct(SetCur, s, id)
     IN /\ SetCommit(IF t.abort # "" THEN t ELSE SetAddRef(t, s))
        /\ rcsLast' = SetCall("NewWithId", IF t.abort # "" THEN NoSet ELSE s,
                              id, sKnownSets.at[id], th)
  /\ UNCHANGED <<shutDown, memberAlive, mContextSet>>
  /\ UNCHANGED <<isContent, lifeVars, treeVars, countVars, ipVars>>

\* RelatedContextSet::ChromeContextSet(), the caller keeping the reference.
ChromeContextSet(th) ==
  /\ SetsRunning
  /\ ~isContent
       => IF sChromeSet = NoSet
          THEN ~shutDown /\ rcsAlive # SetObj /\ FreeSetIds(SetCur) # {}
          ELSE rcsRefCnt[sChromeSet] < MaxRefCnt
  /\ LET t == ChromeContextSetOp(SetCur)
     IN /\ SetCommit(t)
        /\ rcsLast' = SetCall("Chrome", IF t.abort # "" THEN NoSet ELSE t.chrome,
                              0, sChromeSet, th)
  /\ UNCHANGED <<shutDown, memberAlive, mContextSet>>
  /\ UNCHANGED <<isContent, lifeVars, treeVars, countVars, ipVars>>

\* A holder takes another reference to set s.
AddRefSet(s) ==
  /\ SetsRunning
  /\ s \in rcsAlive /\ rcsRefCnt[s] < MaxRefCnt
  /\ SetCommit(SetAddRef(SetCur, s))
  /\ rcsLast' = SetCall("AddRef", s, 0, NoSet, "main")
  /\ UNCHANGED <<shutDown, memberAlive, mContextSet>>
  /\ UNCHANGED <<isContent, lifeVars, treeVars, countVars, ipVars>>

\* A holder drops its reference to set s.
ReleaseSet(s) ==
  /\ SetsRunning
  /\ s \in rcsAlive /\ rcsRefCnt[s] > 0
  /\ SetCommit(SetRelease(SetCur, s))
  /\ rcsLast' = SetCall("Release", s, mUniqueID[s], sKnownSets.at[mUniqueID[s]],
                        "main")
  /\ UNCHANGED <<shutDown, memberAlive, mContextSet>>
  /\ UNCHANGED <<isContent, lifeVars, treeVars, countVars, ipVars>>

\* A BrowsingContext is made in set s: it enters mContexts and its
\* mContextSet, a raw pointer, is set.
AddMember(s, m) ==
  /\ SetsRunning
  /\ s \in rcsAlive /\ m \notin memberAlive
  /\ SetCommit([SetCur EXCEPT !.ctxs[s] = @ \cup {m}])
  /\ memberAlive' = memberAlive \cup {m}
  /\ mContextSet' = [mContextSet EXCEPT ![m] = s]
  /\ rcsLast' = SetCall("AddMember", s, 0, NoSet, "main")
  /\ UNCHANGED shutDown
  /\ UNCHANGED <<isContent, lifeVars, treeVars, countVars, ipVars>>

\* BrowsingContext::~BrowsingContext of a member: the set is not touched.
MemberDestroyed(m) ==
  /\ SetsRunning
  /\ m \in memberAlive
  /\ SetCommit(SetCur)
  /\ memberAlive' = memberAlive \ {m}
  /\ mContextSet' = [mContextSet EXCEPT ![m] = NoSet]
  /\ rcsLast' = SetCall("MemberDestroyed", mContextSet[m], 0, NoSet, "main")
  /\ UNCHANGED shutDown
  /\ UNCHANGED <<isContent, lifeVars, treeVars, countVars, ipVars>>

\* ClearOnShutdown(&sKnownSets): the table is deleted and the pointer nulled.
Shutdown ==
  /\ SetsRunning
  /\ sKnownSets.ptr /\ ~shutDown
  /\ SetCommit([SetCur EXCEPT !.known = [ptr |-> FALSE,
                                         at |-> [i \in Ids |-> NoSet]]])
  /\ shutDown' = TRUE
  /\ rcsLast' = SetCall("Shutdown", NoSet, 0, NoSet, "main")
  /\ UNCHANGED <<memberAlive, mContextSet>>
  /\ UNCHANGED <<isContent, lifeVars, treeVars, countVars, ipVars>>

NextSets ==
  \/ \E th \in Threads : NewSet(th)
  \/ \E id \in Ids, th \in Threads : NewSetWithId(id, th)
  \/ \E th \in Threads : ChromeContextSet(th)
  \/ \E s \in SetObj : AddRefSet(s)
  \/ \E s \in SetObj : ReleaseSet(s)
  \/ \E s \in SetObj, m \in Members : AddMember(s, m)
  \/ \E m \in Members : MemberDestroyed(m)
  \/ Shutdown

\* The sets of a process, content or parent.
InitSets == \E b \in BOOLEAN : InitProcess(b)

SpecSets == InitSets /\ [][NextSets]_vars

----------------------------------------------------------------------------
\* The calls made on the in-process actor pair, all on the main thread.

\* A call of Startup that would make actors is made only while the bound
\* allows it.
CanStart(single) ==
  (single = NoActor /\ ~sShutdown) => ipMade < MaxStartups

\* InProcessParent::Singleton()
ParentSingleton(hasObs, addOk, openOk) ==
  /\ ~ipCrashed
  /\ CanStart(parentSingleton)
  /\ LET t == ParentSingletonOp(IpCur, hasObs, addOk, openOk)
     IN /\ IpCommit(t)
        /\ ipLast' = IpCall("ParentSingleton", t.parent)
  /\ UNCHANGED ipObserved
  /\ UNCHANGED <<isContent, lifeVars, treeVars, rcsVars, countVars>>

\* InProcessChild::Singleton()
ChildSingleton(hasObs, addOk, openOk) ==
  /\ ~ipCrashed
  /\ CanStart(childSingleton)
  /\ LET t == ChildSingletonOp(IpCur, hasObs, addOk, openOk)
     IN /\ IpCommit(t)
        /\ ipLast' = IpCall("ChildSingleton", t.child)
  /\ UNCHANGED ipObserved
  /\ UNCHANGED <<isContent, lifeVars, treeVars, rcsVars, countVars>>

\* The observer service notifies the registered InProcessParent of
\* xpcom-shutdown-threads, once.
Observe ==
  /\ ~ipCrashed
  /\ ipObserver # NoActor /\ ~ipObserved
  /\ IpCommit(ObserveOp(IpCur))
  /\ ipObserved' = TRUE
  /\ ipLast' = IpCall("Observe", NoActor)
  /\ UNCHANGED <<isContent, lifeVars, treeVars, rcsVars, countVars>>

NextInProcess ==
  \/ \E hasObs, addOk, openOk \in BOOLEAN : ParentSingleton(hasObs, addOk, openOk)
  \/ \E hasObs, addOk, openOk \in BOOLEAN : ChildSingleton(hasObs, addOk, openOk)
  \/ Observe

SpecInProcess == InitParent /\ [][NextInProcess]_vars

----------------------------------------------------------------------------
\* Vocabulary of the properties.

Pending == gstate = "UnsubscribePending"

\* Context c exists and is not Dead.
LiveObject(c) == c \in alive /\ mState[c] # "Dead"

\* This step takes context c from no reference to one.
GoesZeroToOne(c) == mRefCnt[c] = 0 /\ c \in alive' /\ mRefCnt'[c] = 1

\* This step takes context c, not Dead, from one reference to none.
GoesOneToZero(c) ==
  /\ LiveObject(c) /\ mRefCnt[c] = 1
  /\ c \in alive' /\ mState'[c] # "Dead" /\ mRefCnt'[c] = 0

\* The content process is about to read a reply / this step reads it.
AckAtHead == toChild # <<>> /\ Head(toChild).type = "ack"
ReadsAck == AckAtHead /\ toChild' = Tail(toChild)

\* The parent is about to read a request / this step handles it.
ReadsUnsubscribe == isContent /\ toParent # <<>> /\ toParent' # toParent
                    /\ Len(toChild') = Len(toChild) + 1

setVars == <<alive, mRefCnt, mState, mParent, mAllChildren, mLiveChildren,
             gstate, mEpoch, liveCount, toParent>>

\* C1: in a content process, a step that takes a context from reference count
\* 0 to 1 while the set is UnsubscribePending leaves the set Subscribed with
\* its epoch one higher, so every request and reply then in flight carries an
\* earlier epoch; and reading a reply that carries an epoch earlier than the
\* set's changes nothing of the set (it stays Subscribed).
C1_ResubscribeInvalidatesRequest ==
  [][ /\ (Pending /\ \E c \in Ctx : GoesZeroToOne(c))
         => /\ gstate' = "Subscribed"
            /\ mEpoch' = mEpoch + 1
            /\ \A i \in 1..Len(toParent') : toParent'[i].epoch < mEpoch'
            /\ \A i \in 1..Len(toChild') :
                 toChild'[i].type = "ack" => toChild'[i].epoch < mEpoch'
      /\ (ReadsAck /\ Head(toChild).epoch < mEpoch) => UNCHANGED setVars
    ]_vars

\* C1 witness: the set is Subscribed again at a raised epoch while the reply
\* to the request of an earlier epoch is still on its way.
C1_Witness ==
  /\ gstate = "Subscribed" /\ mEpoch >= 2 /\ liveCount >= 1
  /\ \E i \in 1..Len(toChild) :
       toChild[i].type = "ack" /\ toChild[i].epoch < mEpoch

\* C2: a content process accepts a reply (and so frees the set) only in a
\* state in which it holds no context that is not Dead and is referenced.
C2_NoReferencedContextFreed ==
  (isContent /\ AckAtHead /\ AckAccepted(Cur, Head(toChild)))
    => \A c \in Ctx : LiveObject(c) => mRefCnt[c] = 0

\* C2 witness: a reply is about to be accepted while the set retains contexts.
C2_Witness ==
  /\ AckAtHead /\ AckAccepted(Cur, Head(toChild))
  /\ Cardinality({c \in Ctx : LiveObject(c)}) >= 2

\* C3: a step that takes a context that is not Dead from reference count 1 to
\* 0 lowers the live count by one; the set becomes UnsubscribePending and one
\* UnsubscribeGroup with the current epoch is sent exactly when the live count
\* reaches 0, and otherwise nothing is sent and the set's state is kept. A
\* request is only ever sent by a step that brings the live count to 0.
C3_LastReleaseUnsubscribes ==
  [][ /\ (isContent /\ \E c \in Ctx : GoesOneToZero(c))
         => /\ liveCount' = liveCount - 1
            /\ (liveCount' = 0)
                 => /\ gstate' = "UnsubscribePending"
                    /\ toParent' = Append(toParent, [epoch |-> mEpoch])
            /\ (liveCount' # 0)
                 => /\ gstate' = gstate
                    /\ toParent' = toParent
      /\ (Len(toParent') > Len(toParent))
         => /\ liveCount' = 0 /\ liveCount = 1
            /\ gstate' = "UnsubscribePending"
            /\ \E c \in Ctx : GoesOneToZero(c)
    ]_vars

\* C3 witness: the last release has been made and its request is in flight.
C3_Witness ==
  /\ Pending /\ liveCount = 0
  /\ toParent # <<>> /\ toParent[Len(toParent)].epoch = mEpoch
  /\ \E c \in Ctx : LiveObject(c)

\* C4: reading a reply (e, success) moves the set to Unsubscribed and frees
\* every context the set retained if and only if success is true and e is the
\* set's current epoch; any other reply leaves the set's state, epoch, live
\* count and contexts as they were.
C4_AckAcceptedIffCurrent ==
  [][ ReadsAck =>
        LET m == Head(toChild) IN
        /\ (m.ok /\ m.epoch = mEpoch)
             => /\ gstate' = "Unsubscribed"
                /\ \A c \in alive' : mState'[c] = "Dead"
        /\ ~(m.ok /\ m.epoch = mEpoch) => UNCHANGED setVars
    ]_vars

\* C4 witness: a reply was accepted and freed the retained contexts.
C4_Witness == gstate = "Unsubscribed" /\ alive = {} /\ toChild = <<>>

\* C5: the parent, handling UnsubscribeGroup(e) of a content process, removes
\* the process from the subscriber list if and only if e is the epoch it last
\* sent to that process, and replies success exactly then; on a mismatch the
\* subscriber list is unchanged and the reply is failure.
C5_ParentUnsubscribesOnMatch ==
  [][ ReadsUnsubscribe =>
        LET e == Head(toParent).epoch
            reply == toChild'[Len(toChild')]
        IN /\ reply.type = "ack" /\ reply.epoch = e
           /\ (e = authEpoch) => (subscribed /\ ~subscribed' /\ reply.ok)
           /\ (e # authEpoch) => (subscribed' = subscribed /\ ~reply.ok)
    ]_vars

\* C5 witness: a matching request was handled: the process is unsubscribed
\* and the success reply is in flight.
C5_Witness ==
  /\ isContent /\ ~subscribed
  /\ \E i \in 1..Len(toChild) : toChild[i].type = "ack" /\ toChild[i].ok

\* C6: the epoch of the set a content process holds never decreases; a step
\* that leaves UnsubscribePending for Subscribed strictly raises it; and a
\* reply whose epoch is below the set's is never acted on.
C6_EpochMonotonic ==
  [][ /\ mEpoch' >= mEpoch
      /\ (Pending /\ gstate' = "Subscribed") => mEpoch' > mEpoch
      /\ (ReadsAck /\ Head(toChild).epoch < mEpoch) => UNCHANGED setVars
      /\ (gstate' = "Unsubscribed" /\ gstate # "Unsubscribed")
           => (ReadsAck /\ Head(toChild).epoch >= mEpoch)
    ]_vars

\* C6 witness: a reply was accepted at an epoch raised at least once.
C6_Witness == gstate = "Unsubscribed" /\ mEpoch >= 2

RECURSIVE Descendants(_)
\* The contexts reachable from c through child links (mAllChildren).
Descendants(c) ==
  UNION {{mAllChildren[c][i]} \cup Descendants(mAllChildren[c][i]) :
           i \in 1..Len(mAllChildren[c])}

\* This step is Die() on context c: c, under a parent, stops being live
\* while its parent stays.
DiesHere(c) ==
  /\ LiveObject(c) /\ mParent[c] # NoCtx
  /\ ~crashed'
  /\ c \notin alive' \/ mState'[c] = "Dead"
  /\ mParent[c] \in alive' /\ mState'[mParent[c]] # "Dead"

\* This step marks context c Dead (and may destroy it).
BecomesDead(c) == LiveObject(c) /\ (c \notin alive' \/ mState'[c] = "Dead")

\* C7: in the parent process, a step that makes a context Dead notifies the
\* subscribed content process; a Dead context whose death the process has yet
\* to acknowledge is not destroyed; and a Dead context with no acknowledgement
\* outstanding and reference count zero is destroyed.
C7_DestroyedOnlyAfterAcks ==
  [][ ~isContent =>
        /\ \A c \in Ctx : (BecomesDead(c) /\ subscribed) => c \in awaiting'
        /\ \A c \in awaiting' : c \in alive'
        /\ \A c \in alive' :
             (mState'[c] = "Dead" /\ c \notin awaiting') => mRefCnt'[c] > 0
    ]_vars

\* C8: once every context of the set in a content process has reference
\* count zero and no further reference or context arrives, the set eventually
\* is Unsubscribed there, the parent's replies being delivered.
C8_EventuallyUnsubscribed == quiesced ~> (gstate = "Unsubscribed")

\* C9: in the parent process, once the content process has disconnected it
\* is subscribed to nothing and owes no acknowledgement: the disconnection
\* resolves them as if given, and nothing waits on the departed process.
C9_DisconnectResolvesAll ==
  (~isContent /\ ~connected) => (~subscribed /\ awaiting = {})

\* C9 witness: the process disconnected after it had subscribed, and a Dead
\* context of the set is still held in the parent.
C9_Witness ==
  /\ ~isContent /\ ~connected /\ authEpoch >= 1
  /\ \E c \in alive : mState[c] = "Dead"

\* C10: after Die() on a context, every context that was reachable from it
\* through child links is Dead (or destroyed), and none of them is left in the
\* live-children or all-children collection of any context.
C10_DescendantsDeadAndUnlinked ==
  [][ \A c \in Ctx : DiesHere(c) =>
        \A d \in Descendants(c) :
          /\ d \notin alive' \/ mState'[d] = "Dead"
          /\ \A x \in alive' :
               /\ \A i \in 1..Len(mLiveChildren'[x]) : mLiveChildren'[x][i] # d
               /\ \A i \in 1..Len(mAllChildren'[x]) : mAllChildren'[x][i] # d
    ]_vars
\* This step takes context c out of the heap.
Destroyed(c) == c \in alive /\ c \notin alive'

\* C11: Die() can be called on a root: no step fails for want of a parent, and
\* a step that makes a root Dead leaves it without children and every context
\* that was its child Dead.
C11_DieOnRootCompletes ==
  [][ /\ ~crashed'
      /\ \A r \in Ctx :
           (LiveObject(r) /\ mParent[r] = NoCtx /\ BecomesDead(r))
             => /\ r \in alive' => mAllChildren'[r] = <<>>
                /\ \A i \in 1..Len(mAllChildren[r]) :
                     LET d == mAllChildren[r][i] IN
                     d \notin alive' \/ mState'[d] = "Dead"
    ]_vars

C13_LiveNotDestroyedAtZero ==
  [][ \A c \in Ctx :
        (LiveObject(c) /\ mRefCnt[c] = 1 /\ (Destroyed(c) \/ mRefCnt'[c] = 0))
          => /\ c \in alive' /\ mState'[c] = mState[c]
             /\ liveCount' = liveCount - 1
    ]_vars

\* C13 witness: a content process retains a context that has lost its last
\* reference while another context of the set is still referenced.
C13_Witness ==
  /\ isContent /\ liveCount >= 1
  /\ \E c \in Ctx : LiveObject(c) /\ mRefCnt[c] = 0

\* C14: in the parent process a context leaves the heap only if it has died,
\* and every context made that has not died is in the heap.
C14_ParentDestroysOnlyDead ==
  [][ ~isContent =>
        /\ \A c \in Ctx : Destroyed(c) => c \in retired'
        /\ \A c \in KnownIds' \ retired' : c \in alive'
    ]_vars

\* C14 witness: the parent has destroyed a context that died and keeps one
\* that is not Dead and that nobody references.
C14_Witness ==
  /\ ~isContent
  /\ \E c \in retired : c \notin alive
  /\ \E d \in Ctx : LiveObject(d) /\ mRefCnt[d] = 0 /\ liveCount >= 1

\* C20: a Dead context has no parent reference and is in neither child
\* collection of any context.
C20_DeadIsUnlinked ==
  \A c \in alive :
    mState[c] = "Dead"
      => /\ mParent[c] = NoCtx
         /\ \A x \in alive :
              /\ \A i \in 1..Len(mAllChildren[x]) : mAllChildren[x][i] # c
              /\ \A i \in 1..Len(mLiveChildren[x]) : mLiveChildren[x][i] # c
\* The tree as it is, in the form snap records it.
TreeNow == TreeCur

\* C15: a Detach that directly follows the Attach that inserted the same
\* context leaves every child list and the root list as they were before the
\* Attach: the same members in the same order.
C15_AttachDetachRestores ==
  [][ ( /\ lastOp.op = "Attach" /\ ~isInList(snap, lastOp.self)
        /\ lastOp'.op = "Detach" /\ lastOp'.self = lastOp.self )
      => /\ mChildren' = snap.kids
         /\ sRootBrowsingContexts' = snap.roots
    ]_vars

\* C15 witness: a context was attached behind another member of a list and
\* directly detached again.
C15_Witness ==
  /\ lastOp.op = "Detach" /\ lastOp.undoes
  /\ sRootBrowsingContexts # <<>> \/ \E x \in bcAlive : mChildren[x] # <<>>

\* C16: no two objects have the same identifier and the table maps the
\* identifier of every object to it; GetOrCreate with an identifier that was
\* registered returns the object registered and makes no object.
C16_GetOrCreateSameContext ==
  /\ \A x, y \in bcAlive : mBrowsingContextId[x] = mBrowsingContextId[y] => x = y
  /\ \A x \in bcAlive : sBrowsingContexts[mBrowsingContextId[x]] = x
  /\ lastOp.op = "GetOrCreate"
       => LET id == mBrowsingContextId[lastOp.self] IN
          snap.reg[id] # NoCtx
            => /\ lastOp.self = snap.reg[id]
               /\ bcAlive = snap.alive
               /\ bcRefCnt[lastOp.self] = snap.ref[lastOp.self] + 1

\* C16 witness: GetOrCreate returned a second reference to a registered
\* context.
C16_Witness ==
  /\ lastOp.op = "GetOrCreate"
  /\ snap.reg[mBrowsingContextId[lastOp.self]] = lastOp.self
  /\ External(TreeNow, lastOp.self) >= 2

\* C17: after Attach on a context that was in a list, whatever the parent
\* passed, the tree is as it was (lists, parent references, counts, table)
\* and no message has been sent.
C17_AttachOnAttachedIsNoOp ==
  (lastOp.op = "Attach" /\ isInList(snap, lastOp.self))
    => (TreeNow = snap /\ sentNow = <<>>)

\* C17 witness: Attach was called on an attached context with a parent that
\* is not the one it is under.
C17_Witness ==
  /\ lastOp.op = "Attach" /\ isInList(snap, lastOp.self)
  /\ lastOp.arg # NoCtx /\ lastOp.arg # bcParent[lastOp.self]

\* C18: after an Attach that inserted the context, a content process has sent
\* exactly one message, AttachContext with the identifier of the parent
\* passed (0 for none), the context's identifier and its name; the parent
\* process has sent none. The context is then in the list of that parent.
C18_AttachNotifies ==
  (lastOp.op = "Attach" /\ ~isInList(snap, lastOp.self))
    => LET h == lastOp.self
           p == lastOp.arg
       IN /\ IF p = NoCtx THEN InSeq(sRootBrowsingContexts, h)
                          ELSE InSeq(mChildren[p], h)
          /\ sentNow = IF isContent
                       THEN << [type |-> "attach",
                                parent |-> IF p = NoCtx THEN 0 ELSE snap.id[p],
                                id |-> snap.id[h], name |-> snap.name[h]] >>
                       ELSE <<>>

\* C18 witness: a content process attached a named context under a parent.
C18_Witness ==
  /\ isContent /\ lastOp.op = "Attach" /\ ~isInList(snap, lastOp.self)
  /\ lastOp.arg # NoCtx /\ mName[lastOp.self] = "a"
  /\ Len(sentNow) = 1

\* C19: after Detach on a context that was in no list the tree is as it was
\* and nothing has been sent. After Detach on a context that was in a list,
\* the context is gone from that list, every list is otherwise as it was,
\* and a content process has sent exactly one DetachContext with the
\* context's identifier, the parent process none; if the context is still
\* referenced, the table, the identifiers and the names are as they were.
C19_DetachFrame ==
  lastOp.op = "Detach"
    => LET h == lastOp.self IN
       IF ~isInList(snap, h)
       THEN TreeNow = snap /\ sentNow = <<>>
       ELSE /\ sRootBrowsingContexts = RemoveElement(snap.roots, h)
            /\ \A x \in bcAlive : mChildren[x] = RemoveElement(snap.kids[x], h)
            /\ ~isInList(TreeNow, h)
            /\ sentNow = IF isContent
                         THEN << [type |-> "detach", parent |-> 0,
                                  id |-> snap.id[h], name |-> ""] >>
                         ELSE <<>>
            /\ h \in bcAlive
                 => /\ bcAlive = snap.alive
                    /\ sBrowsingContexts = snap.reg
                    /\ mBrowsingContextId = snap.id
                    /\ mName = snap.name

\* C19 witness: a content process detached a context from a list in which
\* another member stays.
C19_Witness ==
  /\ isContent /\ lastOp.op = "Detach" /\ isInList(snap, lastOp.self)
  /\ Len(sentNow) = 1
  /\ sRootBrowsingContexts # <<>> \/ \E x \in bcAlive : mChildren[x] # <<>>
\* C21: a context that is Dead stays Dead for as long as the object exists,
\* whatever is called: references taken and dropped, the death of other
\* contexts, messages read.
C21_DeadStaysDead ==
  [][ \A c \in alive :
        (mState[c] = "Dead" /\ c \in alive') => mState'[c] = "Dead"
    ]_vars

\* C21 witness: a Dead context has been referenced again after it died, next
\* to another Dead context.
C21_Witness ==
  \E c, d \in alive :
    /\ c # d /\ mState[c] = "Dead" /\ mState[d] = "Dead"
    /\ mRefCnt[c] = MaxRefCnt

\* C29: Die() on a Dead context fails its assertion and changes nothing; and
\* the all-children arrays, which the recursion of DieInternal follows, hold
\* only contexts that exist and are not Dead, each once.
C29_DieOnlyOnLive ==
  [][ /\ (asserted' /\ ~asserted)
         => /\ \E c \in alive : mState[c] = "Dead"
            /\ UNCHANGED heapVars
      /\ (\E c \in Ctx : BecomesDead(c)) => ~asserted'
      /\ \A x \in alive' :
           \A i \in 1..Len(mAllChildren'[x]) :
             LET d == mAllChildren'[x][i] IN
             /\ d \in alive' /\ mState'[d] # "Dead"
             /\ \A j \in 1..Len(mAllChildren'[x]) :
                  mAllChildren'[x][j] = d => j = i
    ]_vars

\* C29 witness: Die() was called on a Dead context whose former parent still
\* has live children.
C29_Witness ==
  /\ asserted
  /\ \E c \in alive : mState[c] = "Dead"
  /\ \E x \in alive : mAllChildren[x] # <<>>

\* C22: every context that exists is in the table under its identifier, and
\* the table holds nothing else; so Get(id) returns the context that exists
\* with that identifier, and null when there is none, because none was ever
\* made with it or because the one made with it has been destroyed.
C22_RegistryHoldsTheLiving ==
  /\ \A x \in bcAlive : /\ mBrowsingContextId[x] \in Ids
                        /\ sBrowsingContexts[mBrowsingContextId[x]] = x
  /\ \A i \in Ids : sBrowsingContexts[i] # NoCtx
                      => /\ sBrowsingContexts[i] \in bcAlive
                         /\ mBrowsingContextId[sBrowsingContexts[i]] = i
  /\ lastOp.op = "Get"
       => IF \E x \in bcAlive : mBrowsingContextId[x] = lastOp.arg
          THEN /\ lastOp.self \in bcAlive
               /\ mBrowsingContextId[lastOp.self] = lastOp.arg
          ELSE lastOp.self = NoCtx

\* C22 witness: Get has returned null for an identifier while another
\* context exists.
C22_Witness ==
  /\ lastOp.op = "Get" /\ lastOp.self = NoCtx /\ bcAlive # {}

\* C23: no assertion of the tree fails, so no context is destroyed while it
\* is in a child list or in the root list; and the identifier of every
\* context destroyed in a step is out of the table after the step, unless the
\* same step registered a new context under it.
C23_DestroyedOutOfListAndTable ==
  [][ /\ ~bcAsserted'
      /\ \A x \in bcAlive \ bcAlive' :
           LET e == sBrowsingContexts'[mBrowsingContextId[x]] IN
           /\ e # x
           /\ e # NoCtx => e \notin bcAlive
           /\ \A i \in 1..Len(sRootBrowsingContexts') :
                sRootBrowsingContexts'[i] # x
           /\ \A y \in bcAlive' : \A i \in 1..Len(mChildren'[y]) :
                mChildren'[y][i] # x
    ]_vars

\* C23 witness: a Detach has destroyed the context it took out of a list.
C23_Witness ==
  /\ lastOp.op = "Detach" /\ lastOp.self \notin bcAlive
  /\ isInList(snap, lastOp.self)

\* C30: SetName changes the name of its context to the name passed and
\* nothing else in the tree, the table, the parent references and the
\* reference counts; GetName changes nothing and returns the name last given
\* to its context, by SetName or at construction; neither sends a message.
C30_NameFrame ==
  /\ lastOp.op = "SetName"
       => /\ TreeNow = [snap EXCEPT !.name[lastOp.self] = nameGiven[lastOp.self]]
          /\ sentNow = <<>>
  /\ lastOp.op = "GetName"
       => /\ TreeNow = snap
          /\ sentNow = <<>>
          /\ nameGot = nameGiven[lastOp.self]

\* C30 witness: GetName has returned a name that SetName gave, in a content
\* process, on a context that is attached under a parent and has a child.
C30_Witness ==
  /\ isContent /\ lastOp.op = "GetName" /\ nameGot = "a"
  /\ bcParent[lastOp.self] # NoCtx /\ mChildren[lastOp.self] # <<>>

\* C24: making a set under an identifier the table already holds ends the
\* process with the release assertion "Duplicate RelatedContextSet ID", the
\* entry that was there staying as it was and no set being made; the process
\* ends that way for no other reason; and no two sets that exist have the same
\* identifier, every entry of the table being the set that has the entry's
\* identifier.
C24_DuplicateIdIsFatal ==
  /\ \A s, r \in rcsAlive : mUniqueID[s] = mUniqueID[r] => s = r
  /\ \A i \in Ids : sKnownSets.at[i] # NoSet
                      => mUniqueID[sKnownSets.at[i]] = i
  /\ (rcsLast.op = "NewWithId" /\ rcsLast.prev # NoSet)
       => /\ rcsAbort = "DuplicateID"
          /\ rcsLast.self = NoSet
          /\ sKnownSets.at[rcsLast.id] = rcsLast.prev
  /\ rcsAbort = "DuplicateID"
       => rcsLast.op = "NewWithId" /\ rcsLast.prev # NoSet

\* C24 witness: the process has ended on the identifier of a set that is
\* held twice.
C24_Witness ==
  /\ rcsAbort = "DuplicateID" /\ rcsRefCnt[rcsLast.prev] = 2

C26_OneChromeSet ==
  /\ sChromeSet # NoSet => sChromeSet \in rcsAlive /\ ~isContent
  /\ chromeMade = {sChromeSet} \cap SetObj
  /\ (rcsLast.op = "Chrome" /\ ~isContent)
       => /\ rcsLast.self = sChromeSet /\ sChromeSet # NoSet
          /\ rcsLast.prev # NoSet => rcsLast.self = rcsLast.prev
          /\ rcsLast.prev = NoSet => rcsRefCnt[rcsLast.self] = 1
  /\ (rcsLast.op = "Chrome" /\ isContent) => rcsAbort = "ChromeInContent"

\* C26 witness: ChromeContextSet has returned the chrome set a second time,
\* next to another set, after shutdown.
C26_Witness ==
  /\ rcsLast.op = "Chrome" /\ rcsLast.prev # NoSet
  /\ rcsRefCnt[sChromeSet] = 2 /\ Cardinality(rcsAlive) = 2 /\ shutDown

\* C27: no destructor of a set runs while the set has members, and the set
\* of every context that exists is a set that exists.
C27_MembersKeepSetAlive ==
  /\ ~rcsAsserted
  /\ \A m \in memberAlive : mContextSet[m] \in rcsAlive

\* C28: a call made on a thread other than the main thread ends in a failed
\* thread assertion.
C28_OffThreadCallsAreStopped ==
  rcsLast.thread = "other" => rcsAbort = "WrongThread"

\* C31: between calls the live count of the set, its registrations less its
\* unregistrations, is the number of contexts that exist, are not Dead and
\* are referenced.
C31_LiveCountMatches ==
  liveCount = Cardinality({c \in alive : mState[c] # "Dead" /\ mRefCnt[c] > 0})

\* C32: Detach never uses its context after the context was deleted; when
\* the list held the last reference, the notification of a content process
\* still carries the identifier the context had, and the context is gone
\* once Detach has returned.
C32_DetachOutlivesRemoval ==
  /\ ~bcDangling
  /\ (lastOp.op = "Detach" /\ isInList(snap, lastOp.self)
        /\ snap.ref[lastOp.self] = 1)
       => /\ lastOp.self \notin bcAlive
          /\ isContent => /\ Len(sentNow) = 1
                          /\ sentNow[1].id = snap.id[lastOp.self]
                          /\ sentNow[1].id \in Ids

\* C32 witness: in a content process Detach has destroyed a context that had
\* a child, having sent its notification.
C32_Witness ==
  /\ isContent /\ lastOp.op = "Detach" /\ lastOp.self \notin bcAlive
  /\ snap.ref[lastOp.self] = 1 /\ snap.kids[lastOp.self] # <<>>
  /\ Len(sentNow) = 1

\* C33: no reference count is ever negative. AddRef returns the count after
\* the increment, Release the count after the decrement (0 when it deleted
\* the context), and Release is performed only on a count above zero: called
\* at zero it fails its assertion and changes nothing.
C33_CountStaysNatural ==
  [][ /\ \A c \in Ctx : mRefCnt'[c] >= 0
      /\ lastRef' # lastRef
           => LET c == lastRef'.self IN
              IF asserted'
              THEN /\ lastRef'.op = "Release" /\ mRefCnt[c] = 0
                   /\ UNCHANGED heapVars
              ELSE /\ lastRef'.op = "AddRef"
                        => /\ lastRef'.count = mRefCnt[c] + 1
                           /\ mRefCnt'[c] = lastRef'.count
                   /\ lastRef'.op = "Release"
                        => /\ mRefCnt[c] > 0
                           /\ lastRef'.count = mRefCnt[c] - 1
                           /\ IF c \in alive' THEN mRefCnt'[c] = lastRef'.count
                                               ELSE lastRef'.count = 0
    ]_vars

\* C33 witness: Release has returned 0 for a context it deleted, another
\* context being referenced twice.
C33_Witness ==
  /\ lastRef.op = "Release" /\ lastRef.count = 0 /\ ~asserted
  /\ lastRef.self \notin alive
  /\ \E d \in alive : mRefCnt[d] = MaxRefCnt

\* C34: every context is in at most one list, once; its parent reference is
\* context P exactly when it is in the child list of P, and is null when it
\* is in the root list or in no list.
C34_ParentAgreesWithMembership ==
  \A h \in bcAlive :
    /\ Cardinality({i \in 1..Len(sRootBrowsingContexts) :
                      sRootBrowsingContexts[i] = h})
         + Cardinality({<<x, i>> \in bcAlive \X (1..NumIds) :
                          i <= Len(mChildren[x]) /\ mChildren[x][i] = h}) <= 1
    /\ \A q \in bcAlive : bcParent[h] = q <=> InSeq(mChildren[q], h)
    /\ bcParent[h] # NoCtx => bcParent[h] \in bcAlive

\* C35: Attach under a parent leaves the reference count of the parent as it
\* was, so a child does not keep its parent alive; the parent reference of a
\* context is null or a context that exists; and the contexts that were in
\* the child list of a context destroyed in a step, and exist after it, have
\* no parent and are in no list.
C35_ParentIsWeak ==
  [][ /\ (lastOp'.op = "Attach" /\ lastOp'.arg \in bcAlive)
           => bcRefCnt'[lastOp'.arg] = bcRefCnt[lastOp'.arg]
      /\ \A h \in bcAlive' :
           bcParent'[h] # NoCtx => bcParent'[h] \in bcAlive'
      /\ \A q \in bcAlive \ bcAlive' :
           \A i \in 1..Len(mChildren[q]) :
             LET k == mChildren[q][i] IN
             k \in bcAlive'
               => /\ bcParent'[k] = NoCtx
                  /\ ~InSeq(sRootBrowsingContexts', k)
                  /\ \A x \in bcAlive' : ~InSeq(mChildren'[x], k)
    ]_vars

\* C35 witness: Detach has destroyed a context that had a child in its list,
\* and the child, held by a caller, is left without parent.
C35_Witness ==
  /\ lastOp.op = "Detach" /\ lastOp.self \notin bcAlive
  /\ \E k \in bcAlive : /\ InSeq(snap.kids[lastOp.self], k)
                         /\ snap.par[k] = lastOp.self
                         /\ bcParent[k] = NoCtx

\* C36: a call that destroys a set in a content process makes exactly one
\* call of Unsubscribe, with the identifier of the set, made when the table no
\* longer holds the identifier; in the parent process it makes none; and a
\* call that destroys no set makes none.
C36_OneUnsubscribePerDestroyedSet ==
  IF rcsLast.op = "Release" /\ rcsLast.self \notin rcsAlive /\ isContent
  THEN rcsSent = << [id |-> rcsLast.id, listed |-> FALSE] >>
  ELSE rcsSent = <<>>

\* C36 witness: a content process has destroyed a set before shutdown and
\* unsubscribed, while another set exists.
C36_Witness ==
  /\ isContent /\ ~shutDown /\ rcsLast.op = "Release"
  /\ rcsLast.self \notin rcsAlive /\ Len(rcsSent) = 1 /\ rcsAlive # {}

\* C37: the two singletons are both set, to the actors of one pair, or both
\* null; and from the step that observes the shutdown notification on, both
\* are null, no actor is made and every call of Singleton returns null.
C37_SingletonsPairedAndGoneAfterShutdown ==
  [][ /\ parentSingleton' = childSingleton'
      /\ ipObserved'
           => /\ sShutdown'
              /\ parentSingleton' = NoActor /\ childSingleton' = NoActor
              /\ ipLast'.result = NoActor
      /\ ipObserved => ipMade' = ipMade /\ ipObserved'
    ]_vars

\* C37 witness: after the shutdown notification a Singleton call has returned
\* null, an earlier Startup having failed to register its observer.
C37_Witness ==
  /\ ipObserved /\ ipLast.op = "ChildSingleton" /\ ipLast.result = NoActor
  /\ ipMade >= 2
=============================================================================
